---- MODULE Spec2Model ----
(***************************************************************************)
(* A model of the duplicate-detection scripts of references-cleaning-tool: *)
(*   src/clean.py       BibDeduplicator  (DOI pass, then similarity pass)   *)
(*   src/clean_csv.py   CSVDeduplicator  (group by composite key)           *)
(*   src/clean_xlsx.py  ExcelDeduplicator (streaming first-seen map)        *)
(*   src/clean_mf.py    Deduplicator     (multi-format, pairwise)           *)
(*                                                                         *)
(* Text is a sequence of characters; a character is a one-character TLA+   *)
(* string, except for the non-ASCII code points, which are written by      *)
(* their code point: "U00E9" is LATIN SMALL LETTER E WITH ACUTE, "U0301"   *)
(* is COMBINING ACUTE ACCENT, "U2102" is DOUBLE-STRUCK CAPITAL C.          *)
(* Python's 0-based list positions are the model's 1-based positions.      *)
(***************************************************************************)
EXTENDS Integers, Sequences, FiniteSets, TLC

VARIABLES
    pc,                \* position in BibDeduplicator.deduplicate_entries
    all_entries,       \* clean.py:120  the batch read from the input files
    doi_duplicates,    \* clean.py:130  (original, duplicate) positions
    removed_entries,   \* clean.py:122  positions standing for id(entry)
    duplicates_count,  \* clean.py:121
    i,                 \* clean.py:137  outer loop index
    j,                 \* clean.py:140  inner loop index
    log,               \* the calls of log_duplicate, in order
    cmpLog,            \* the calls of are_entries_similar made by the loop
    unique_entries,    \* clean.py:149  positions of the retained entries
    call,              \* the call under way in the single-function specifications
    ret                \* its result

vars == <<pc, all_entries, doi_duplicates, removed_entries, duplicates_count,
          i, j, log, cmpLog, unique_entries, call, ret>>

bibVars == <<pc, all_entries, doi_duplicates, removed_entries, duplicates_count,
             i, j, log, cmpLog, unique_entries>>

(***************************************************************************)
(* Bounds of the model.                                                    *)
(***************************************************************************)
MaxBatch == 3
MaxLen == 3
MaxSimLen == 2
MaxKeyLen == 2
MaxRatioLen == 3

(***************************************************************************)
(* Characters: str.lower, NFKD, \w and \s on the characters of the model.  *)
(***************************************************************************)
UpperCase == <<"A", "B", "C", "D", "E", "F", "G", "H", "I", "J", "K", "L", "M",
               "N", "O", "P", "Q", "R", "S", "T", "U", "V", "W", "X", "Y", "Z">>
LowerCase == <<"a", "b", "c", "d", "e", "f", "g", "h", "i", "j", "k", "l", "m",
               "n", "o", "p", "q", "r", "s", "t", "u", "v", "w", "x", "y", "z">>
Digits == {"0", "1", "2", "3", "4", "5", "6", "7", "8", "9"}
\* The characters of re's \s, which are those of str.isspace(), str.strip()
\* and str.split(). A character with no escape is written by its code point.
WhiteSpace == {" ", "\t", "\n", "U000B", "\f", "\r", "U001C", "U001D", "U001E", "U001F",
               "U0085", "U00A0", "U1680", "U2000", "U2001", "U2002", "U2003", "U2004",
               "U2005", "U2006", "U2007", "U2008", "U2009", "U200A", "U2028", "U2029",
               "U202F", "U205F", "U3000"}
\* the blanks whose compatibility decomposition is the space
CompatBlanks == {"U00A0", "U2000", "U2001", "U2002", "U2003", "U2004", "U2005", "U2006",
                 "U2007", "U2008", "U2009", "U200A", "U202F", "U205F", "U3000"}

Range(s) == {s[k] : k \in DOMAIN s}

\* str.lower() on one character. U00E9 is already lower case; U2102 is an
\* uppercase letter (category Lu) with no lowercase mapping, so it stays.
LowerChar(c) ==
    IF \E k \in DOMAIN UpperCase : UpperCase[k] = c
    THEN LowerCase[CHOOSE k \in DOMAIN UpperCase : UpperCase[k] = c]
    ELSE c

\* unicodedata.normalize('NFKD', c) on one character.
NFKDChar(c) ==
    CASE c = "U00E9" -> <<"e", "U0301">>
      [] c = "U2102" -> <<"C">>
      [] c \in CompatBlanks -> <<" ">>
      [] OTHER -> <<c>>

\* re's \w: letters, digits and the underscore; a combining mark is not.
IsWord(c) == c \in Range(UpperCase) \cup Range(LowerCase) \cup Digits
                   \cup {"_", "U00E9", "U2102"}
\* re's \s
IsSpace(c) == c \in WhiteSpace

Lower(text) == [k \in DOMAIN text |-> LowerChar(text[k])]

RECURSIVE NFKD(_)
NFKD(text) == IF text = <<>> THEN <<>>
              ELSE NFKDChar(Head(text)) \o NFKD(Tail(text))

\* re.sub(r'[^\w\s]', '', text)
IsKept(c) == IsWord(c) \/ IsSpace(c)
RemoveSpecial(text) == SelectSeq(text, IsKept)

RECURSIVE LStrip(_)
LStrip(text) == IF text # <<>> /\ IsSpace(Head(text)) THEN LStrip(Tail(text))
                ELSE text
RECURSIVE RStrip(_)
RStrip(text) == IF text # <<>> /\ IsSpace(text[Len(text)])
                THEN RStrip(SubSeq(text, 1, Len(text) - 1))
                ELSE text
\* str.strip()
Strip(text) == RStrip(LStrip(text))

\* re.sub(r'\s+', ' ', text)
RECURSIVE CollapseSpace(_)
CollapseSpace(text) ==
    IF text = <<>> THEN <<>>
    ELSE IF IsSpace(Head(text)) THEN <<" ">> \o CollapseSpace(LStrip(text))
    ELSE <<Head(text)>> \o CollapseSpace(Tail(text))

\* BibDeduplicator.normalize_string
normalize_string(text) ==
    IF text = <<>> THEN <<>>
    ELSE Strip(CollapseSpace(RemoveSpecial(NFKD(Lower(text)))))

(***************************************************************************)
(* difflib.SequenceMatcher(None, a, b).ratio(), as calculate_similarity    *)
(* uses it: no junk, and autojunk left on, so that when b has 200          *)
(* characters or more, the characters that fill more than 1 + len(b) / 100 *)
(* of its positions ("popular") are left out of the index of b: no block   *)
(* is found at them, a block found is only extended over them.             *)
(* Positions are Python's: a[p] of the code is a[p + 1] here, and a range  *)
(* alo..ahi excludes ahi.                                                  *)
(***************************************************************************)
\* the length from which on autojunk looks for popular characters
AutoJunkLen == 200

\* bpopular of __chain_b, for the whole text b
Popular(b) ==
    IF Len(b) < AutoJunkLen THEN {}
    ELSE {c \in Range(b) :
              Cardinality({k \in DOMAIN b : b[k] = c}) > (Len(b) \div 100) + 1}

\* the length of the common run of a[p:ahi] and b[q:bhi] starting at p and
\* q, as far as its characters are in the index of b
RECURSIVE RunLen(_, _, _, _, _, _, _)
RunLen(a, p, ahi, b, q, bhi, popular) ==
    IF p < ahi /\ q < bhi /\ a[p + 1] = b[q + 1] /\ b[q + 1] \notin popular
    THEN 1 + RunLen(a, p + 1, ahi, b, q + 1, bhi, popular)
    ELSE 0

\* the smaller of two numbers, and the least member of a set of numbers
Min(x, y) == IF x <= y THEN x ELSE y
Least(S) == CHOOSE x \in S : \A y \in S : x <= y

\* the block m = <<besti, bestj, bestsize>> extended to the left, then to
\* the right, over equal characters, popular or not: each loop runs up to
\* the first pair of characters that differ, or to the end of a range
ExtendLeft(a, alo, b, blo, m) ==
    LET room == Min(m[1] - alo, m[2] - blo)
        differ == {t \in 1 .. room : a[m[1] - t + 1] # b[m[2] - t + 1]}
        n == IF differ = {} THEN room ELSE Least(differ) - 1
    IN  <<m[1] - n, m[2] - n, m[3] + n>>
ExtendRight(a, ahi, b, bhi, m) ==
    LET room == Min(ahi - (m[1] + m[3]), bhi - (m[2] + m[3]))
        differ == {t \in 1 .. room : a[m[1] + m[3] + t] # b[m[2] + m[3] + t]}
        n == IF differ = {} THEN room ELSE Least(differ) - 1
    IN  <<m[1], m[2], m[3] + n>>

\* the loop of find_longest_match over the index of b: a longest block, of
\* those the one starting earliest in a, of those the one starting earliest
\* in b; <<alo, blo, 0>> when none
LongestIndexed(a, alo, ahi, b, blo, bhi, popular) ==
    LET blocks == {<<p, q, RunLen(a, p, ahi, b, q, bhi, popular)>> :
                       p \in alo .. ahi - 1, q \in blo .. bhi - 1}
        found == {m \in blocks : m[3] > 0}
        longest == {m \in found : \A n \in found : n[3] <= m[3]}
        firstA == {m \in longest : \A n \in longest : m[1] <= n[1]}
    IN  IF found = {} THEN <<alo, blo, 0>>
        ELSE CHOOSE m \in firstA : \A n \in firstA : m[2] <= n[2]

\* find_longest_match(alo, ahi, blo, bhi) of SequenceMatcher(None, a, b)
find_longest_match(a, alo, ahi, b, blo, bhi) ==
    ExtendRight(a, ahi, b, bhi,
        ExtendLeft(a, alo, b, blo,
            LongestIndexed(a, alo, ahi, b, blo, bhi, Popular(b))))

\* get_matching_blocks, summed: the matched length M
RECURSIVE MatchedLength(_, _, _, _, _, _)
MatchedLength(a, alo, ahi, b, blo, bhi) ==
    LET m == find_longest_match(a, alo, ahi, b, blo, bhi)
    IN  IF m[3] = 0 THEN 0
        ELSE m[3] + MatchedLength(a, alo, m[1], b, blo, m[2])
                  + MatchedLength(a, m[1] + m[3], ahi, b, m[2] + m[3], bhi)

\* A ratio is a pair <<numerator, denominator>>; the floats of the code are
\* the correctly rounded quotients, which compare as the fractions do for
\* the texts of the model.
Greater(r, t) == r[1] * t[2] > t[1] * r[2]

\* calculate_similarity with 0.0 for two empty texts
CalculateSimilarityEmptyZero(str1, str2) ==
    LET T == Len(str1) + Len(str2)
    IN  IF T = 0 THEN <<0, 1>>
        ELSE <<2 * MatchedLength(str1, 0, Len(str1), str2, 0, Len(str2)), T>>

\* BibDeduplicator.calculate_similarity: 2.0 * M / T, and 1.0 when T = 0
calculate_similarity(str1, str2) ==
    LET T == Len(str1) + Len(str2)
    IN  IF T = 0 THEN <<1, 1>>
        ELSE <<2 * MatchedLength(str1, 0, Len(str1), str2, 0, Len(str2)), T>>

(***************************************************************************)
(* Entries (clean.py): a dict from field names to texts; a field may be    *)
(* missing. entry.get(key, default) is Get.                                *)
(***************************************************************************)
Get(entry, key, default) == IF key \in DOMAIN entry THEN entry[key] ELSE default

\* the default thresholds of are_entries_similar
title_threshold == <<19, 20>>
author_threshold == <<4, 5>>

\* are_entries_similar with >= for > on both thresholds
AreSimilarNotStrict(entry1, entry2, tt, at) ==
    LET title1 == normalize_string(Get(entry1, "title", <<>>))
        title2 == normalize_string(Get(entry2, "title", <<>>))
        title_similarity == calculate_similarity(title1, title2)
        authors1 == normalize_string(Get(entry1, "author", <<>>))
        authors2 == normalize_string(Get(entry2, "author", <<>>))
        author_similarity == calculate_similarity(authors1, authors2)
    IN  IF ~Greater(tt, title_similarity)
        THEN [result |-> ~Greater(at, author_similarity),
              calls |-> <<"title", "author">>]
        ELSE [result |-> FALSE, calls |-> <<"title">>]
\* BibDeduplicator.are_entries_similar with its two thresholds; calls lists
\* the similarities that were computed, in order
AreSimilar(entry1, entry2, tt, at) ==
    LET title1 == normalize_string(Get(entry1, "title", <<>>))
        title2 == normalize_string(Get(entry2, "title", <<>>))
        title_similarity == calculate_similarity(title1, title2)
        authors1 == normalize_string(Get(entry1, "author", <<>>))
        authors2 == normalize_string(Get(entry2, "author", <<>>))
        author_similarity == calculate_similarity(authors1, authors2)
    IN  IF Greater(title_similarity, tt)
        THEN [result |-> Greater(author_similarity, at),
              calls |-> <<"title", "author">>]
        ELSE [result |-> FALSE, calls |-> <<"title">>]

are_entries_similar(entry1, entry2) ==
    AreSimilar(entry1, entry2, title_threshold, author_threshold).result

\* `if doi:` on entry.get('doi'): neither None nor the empty text
HasDoi(entry) == "doi" \in DOMAIN entry /\ entry["doi"] # <<>>
\* doi.strip(), the letter case kept
NormalizeDoiCaseKept(doi) == Strip(doi)
\* doi.lower().strip()
NormalizeDoi(doi) == Strip(Lower(doi))

\* the loop of check_doi_duplicates from position k on; doi_map maps a
\* normalized DOI to the position of the first entry carrying it
RECURSIVE DoiScan(_, _, _, _)
DoiScan(entries, k, doi_map, duplicates) ==
    IF k > Len(entries) THEN duplicates
    ELSE IF ~HasDoi(entries[k]) THEN DoiScan(entries, k + 1, doi_map, duplicates)
    ELSE LET doi == NormalizeDoi(entries[k]["doi"])
         IN  IF doi \in DOMAIN doi_map
             THEN DoiScan(entries, k + 1, doi_map,
                          Append(duplicates, <<doi_map[doi], k>>))
             ELSE DoiScan(entries, k + 1, doi_map @@ (doi :> k), duplicates)

EmptyMap == [d \in {} |-> 0]

\* DoiScan with the map overwritten by every entry: last-seen-wins
RECURSIVE DoiScanLastSeen(_, _, _, _)
DoiScanLastSeen(entries, k, doi_map, duplicates) ==
    IF k > Len(entries) THEN duplicates
    ELSE IF ~HasDoi(entries[k]) THEN DoiScanLastSeen(entries, k + 1, doi_map, duplicates)
    ELSE LET doi == NormalizeDoi(entries[k]["doi"])
         IN  IF doi \in DOMAIN doi_map
             THEN DoiScanLastSeen(entries, k + 1,
                                  [doi_map EXCEPT ![doi] = k],
                                  Append(duplicates, <<doi_map[doi], k>>))
             ELSE DoiScanLastSeen(entries, k + 1, doi_map @@ (doi :> k), duplicates)
CheckDoiDuplicatesLastSeen(entries) == DoiScanLastSeen(entries, 1, EmptyMap, <<>>)

\* BibDeduplicator.check_doi_duplicates
check_doi_duplicates(entries) == DoiScan(entries, 1, EmptyMap, <<>>)

(***************************************************************************)
(* The batches of the model: every sequence of at most MaxBatch entries    *)
(* whose fields are drawn from the choices below. Absent marks a field the *)
(* entry does not have.                                                    *)
(***************************************************************************)
Absent == <<"absent">>
TitleChoices == {Absent, <<"a">>, <<"A", "!">>}
AuthorChoices == {Absent, <<"a", "b", "c">>}
DoiChoices == {Absent, <<"x">>, <<"X", " ">>}

MakeEntry(t, a, d) ==
    LET full == [title |-> t, author |-> a, doi |-> d]
    IN  [f \in {g \in {"title", "author", "doi"} : full[g] # Absent} |-> full[f]]

BibEntries == {MakeEntry(t, a, d) :
                   t \in TitleChoices, a \in AuthorChoices, d \in DoiChoices}

SeqsUpTo(S, n) == UNION {[1 .. m -> S] : m \in 0 .. n}

NoCall == [fn |-> "none"]

(***************************************************************************)
(* BibDeduplicator.deduplicate_entries, from the batch read (line 127) to  *)
(* the list returned (line 155).                                           *)
(***************************************************************************)
Init ==
    /\ pc = "doi"
    /\ all_entries \in SeqsUpTo(BibEntries, MaxBatch)
    /\ doi_duplicates = <<>>
    /\ removed_entries = {}
    /\ duplicates_count = 0
    /\ i = 0
    /\ j = 0
    /\ log = <<>>
    /\ cmpLog = <<>>
    /\ unique_entries = <<>>
    /\ call = NoCall
    /\ ret = NoCall

\* id(all_entries[k]) in removed_entries
IsRemoved(k) == k \in removed_entries

\* log_duplicate(original, duplicate, method), as the record of the call
LogCall(original, duplicate, method) ==
    [original |-> original, duplicate |-> duplicate, method |-> method]

\* the DOI pass with line 132 left out
DoiPassUncounted ==
    /\ pc = "doi"
    /\ LET found == check_doi_duplicates(all_entries)
       IN  /\ doi_duplicates' = found
           /\ removed_entries' = removed_entries \cup {found[k][2] : k \in DOMAIN found}
           /\ log' = log \o [k \in DOMAIN found |->
                                 LogCall(found[k][1], found[k][2], "DOI match")]
    /\ pc' = "outer"
    /\ i' = 1
    /\ UNCHANGED <<all_entries, duplicates_count, j, cmpLog, unique_entries, call, ret>>

\* lines 129-134: the DOI pass
DoiPass ==
    /\ pc = "doi"
    /\ LET found == check_doi_duplicates(all_entries)
       IN  /\ doi_duplicates' = found
           /\ duplicates_count' = duplicates_count + Len(found)
           /\ removed_entries' = removed_entries \cup {found[k][2] : k \in DOMAIN found}
           /\ log' = log \o [k \in DOMAIN found |->
                                 LogCall(found[k][1], found[k][2], "DOI match")]
    /\ pc' = "outer"
    /\ i' = 1
    /\ UNCHANGED <<all_entries, j, cmpLog, unique_entries, call, ret>>

\* line 137 exhausted: on to line 149
OuterExit ==
    /\ pc = "outer"
    /\ i > Len(all_entries)
    /\ pc' = "final"
    /\ UNCHANGED <<all_entries, doi_duplicates, removed_entries, duplicates_count,
                   i, j, log, cmpLog, unique_entries, call, ret>>

\* lines 138-139: a removed entry is no candidate original
OuterSkip ==
    /\ pc = "outer"
    /\ i <= Len(all_entries)
    /\ IsRemoved(i)
    /\ i' = i + 1
    /\ UNCHANGED <<pc, all_entries, doi_duplicates, removed_entries, duplicates_count,
                   j, log, cmpLog, unique_entries, call, ret>>

\* line 140: the inner loop starts behind i
OuterEnter ==
    /\ pc = "outer"
    /\ i <= Len(all_entries)
    /\ ~IsRemoved(i)
    /\ pc' = "inner"
    /\ j' = i + 1
    /\ UNCHANGED <<all_entries, doi_duplicates, removed_entries, duplicates_count,
                   i, log, cmpLog, unique_entries, call, ret>>

\* line 140 exhausted: the next i
InnerExit ==
    /\ pc = "inner"
    /\ j > Len(all_entries)
    /\ pc' = "outer"
    /\ i' = i + 1
    /\ UNCHANGED <<all_entries, doi_duplicates, removed_entries, duplicates_count,
                   j, log, cmpLog, unique_entries, call, ret>>

\* lines 141-142: a removed entry is no candidate duplicate
InnerSkip ==
    /\ pc = "inner"
    /\ j <= Len(all_entries)
    /\ IsRemoved(j)
    /\ j' = j + 1
    /\ UNCHANGED <<pc, all_entries, doi_duplicates, removed_entries, duplicates_count,
                   i, log, cmpLog, unique_entries, call, ret>>

\* lines 143-146: compare i and j; on a match j is removed
Compare ==
    /\ cmpLog' = Append(cmpLog, [i |-> i, j |-> j, removed |-> removed_entries])
    /\ IF are_entries_similar(all_entries[i], all_entries[j])
       THEN /\ duplicates_count' = duplicates_count + 1
            /\ removed_entries' = removed_entries \cup {j}
            /\ log' = Append(log, LogCall(i, j, "Title/Author similarity"))
       ELSE UNCHANGED <<duplicates_count, removed_entries, log>>
    /\ j' = j + 1
    /\ UNCHANGED <<pc, all_entries, doi_duplicates, i, unique_entries, call, ret>>

\* the comparison with lines 141-142 left out
InnerCompareRemoved ==
    /\ pc = "inner"
    /\ j <= Len(all_entries)
    /\ Compare

InnerCompare ==
    /\ pc = "inner"
    /\ j <= Len(all_entries)
    /\ ~IsRemoved(j)
    /\ Compare

\* line 149 with the kept entries listed newest first
RetainedNewestFirst(entries, removed) ==
    LET kept == SelectSeq([k \in DOMAIN entries |-> k], LAMBDA k : k \notin removed)
    IN  [n \in 1 .. Len(kept) |-> kept[Len(kept) + 1 - n]]

\* line 149
Retained(entries, removed) ==
    SelectSeq([k \in DOMAIN entries |-> k], LAMBDA k : k \notin removed)

\* lines 148-155
Finish ==
    /\ pc = "final"
    /\ unique_entries' = Retained(all_entries, removed_entries)
    /\ pc' = "done"
    /\ UNCHANGED <<all_entries, doi_duplicates, removed_entries, duplicates_count,
                   i, j, log, cmpLog, call, ret>>

Next ==
    \/ DoiPass
    \/ OuterExit
    \/ OuterSkip
    \/ OuterEnter
    \/ InnerExit
    \/ InnerSkip
    \/ InnerCompare
    \/ Finish

Spec == Init /\ [][Next]_vars

(***************************************************************************)
(* The same run on batches of entries that differ in their DOI only: no    *)
(* DOI, an empty one, blank-only ones, and DOIs that differ in letter case *)
(* and surrounding blanks.                                                 *)
(***************************************************************************)
DoiOnlyChoices == {Absent, <<>>, <<" ">>, <<" ", " ">>, <<"x">>, <<"X", " ">>,
                   <<" ", "x">>, <<"x", "x">>, <<"x", "\n">>,
                   <<"1", "0", ".", "1", "/", "A", "B", "C", " ">>,
                   <<"1", "0", ".", "1", "/", "a", "b", "c">>}
DoiEntries == {MakeEntry(Absent, Absent, d) : d \in DoiOnlyChoices}

InitDoi ==
    /\ pc = "doi"
    /\ all_entries \in SeqsUpTo(DoiEntries, MaxBatch)
    /\ doi_duplicates = <<>>
    /\ removed_entries = {}
    /\ duplicates_count = 0
    /\ i = 0
    /\ j = 0
    /\ log = <<>>
    /\ cmpLog = <<>>
    /\ unique_entries = <<>>
    /\ call = NoCall
    /\ ret = NoCall

SpecDoi == InitDoi /\ [][Next]_vars

(***************************************************************************)
(* Claims about BibDeduplicator.deduplicate_entries, under Spec, and about *)
(* its DOI pass, under SpecDoi.                                            *)
(***************************************************************************)
Positions == 1 .. Len(all_entries)
ClaimedBy(k) == {n \in DOMAIN log : log[n].duplicate = k}

\* C1: partition completeness. When deduplicate_entries returns, the number
\* of retained entries plus duplicates_count is the number of input entries,
\* and every input entry is either retained (once) or claimed as a duplicate,
\* never both and never neither.
C1_PartitionComplete ==
    pc = "done" =>
        /\ Len(unique_entries) + duplicates_count = Len(all_entries)
        /\ Range(unique_entries) \subseteq Positions
        /\ \A m, n \in DOMAIN unique_entries :
               unique_entries[m] = unique_entries[n] => m = n
        /\ \A k \in Positions :
               (k \in Range(unique_entries)) # (ClaimedBy(k) # {})

C1_Witness ==
    /\ pc = "done"
    /\ Len(all_entries) = 3
    /\ Len(unique_entries) = 1
    /\ \E m, n \in DOMAIN log : /\ log[m].method = "DOI match"
                                 /\ log[n].method = "Title/Author similarity"

\* C2: when both passes have run, no entry reported as the original of a
\* duplicate has itself been claimed as a duplicate: every reported original
\* is in the returned list.
C2_OriginalsRetained ==
    pc = "done" =>
        \A n \in DOMAIN log :
            /\ log[n].original \notin removed_entries
            /\ log[n].original \in Range(unique_entries)

\* the DOI of an entry that has a non-empty one, and that text between its
\* first and its last non-blank character
DoiOf(k) == all_entries[k]["doi"]
Core(text) ==
    LET solid == {k \in DOMAIN text : ~IsSpace(text[k])}
    IN  IF solid = {} THEN <<>>
        ELSE SubSeq(text, CHOOSE k \in solid : \A n \in solid : k <= n,
                          CHOOSE k \in solid : \A n \in solid : n <= k)
EqualIgnoringCase(x, y) ==
    /\ Len(x) = Len(y)
    /\ \A k \in DOMAIN x : LowerChar(x[k]) = LowerChar(y[k])
SameDoi(m, n) ==
    /\ HasDoi(all_entries[m])
    /\ HasDoi(all_entries[n])
    /\ EqualIgnoringCase(Core(DoiOf(m)), Core(DoiOf(n)))
FirstWithDoi(k) == CHOOSE m \in Positions : SameDoi(m, k) /\ \A n \in Positions :
                                                SameDoi(n, k) => m <= n

\* C3: exact-key matching is first-seen-wins over DOIs compared ignoring
\* letter case and surrounding blanks. The pairs check_doi_duplicates
\* reports are exactly (first entry carrying the DOI, k) for every entry k
\* whose non-empty DOI equals that of an earlier entry carrying one, each
\* once, in input order of k.
C3_FirstSeenWins ==
    pc # "doi" =>
        /\ Range(doi_duplicates) =
               {<<FirstWithDoi(k), k>> :
                    k \in {n \in Positions : \E m \in 1 .. n - 1 : SameDoi(m, n)}}
        /\ \A m, n \in DOMAIN doi_duplicates :
               m < n => doi_duplicates[m][2] < doi_duplicates[n][2]

C3_Witness ==
    /\ pc # "doi"
    /\ doi_duplicates = <<(<<1, 2>>), (<<1, 3>>)>>
    /\ DoiOf(1) # DoiOf(2)
    /\ DoiOf(2) = DoiOf(3)

\* C4: check_doi_duplicates never reports a pair in which either entry's
\* DOI is absent, empty, or empty after trimming.
C4_NoEmptyDoiMatched ==
    pc # "doi" =>
        \A n \in DOMAIN doi_duplicates :
            \A k \in {doi_duplicates[n][1], doi_duplicates[n][2]} :
                /\ "doi" \in DOMAIN all_entries[k]
                /\ DoiOf(k) # <<>>
                /\ Core(DoiOf(k)) # <<>>

\* C6: claimed entries are never reconsidered. Every call of
\* are_entries_similar made by the similarity pass compares an entry i with a
\* later entry j, neither of them claimed at that moment (by the DOI pass or
\* by an earlier match); and on a match the earlier entry i is the original
\* and the later entry j the one claimed.
C6_ClaimedNeverReconsidered ==
    /\ \A n \in DOMAIN cmpLog :
           /\ cmpLog[n].i < cmpLog[n].j
           /\ cmpLog[n].i \notin cmpLog[n].removed
           /\ cmpLog[n].j \notin cmpLog[n].removed
    /\ \A n \in DOMAIN log :
           log[n].method = "Title/Author similarity" =>
               /\ log[n].original < log[n].duplicate
               /\ log[n].duplicate \in removed_entries
               /\ \E m \in DOMAIN cmpLog : /\ cmpLog[m].i = log[n].original
                                            /\ cmpLog[m].j = log[n].duplicate

C6_Witness ==
    /\ pc = "done"
    /\ \E m, n \in DOMAIN log : /\ log[m].method = "DOI match"
                                 /\ log[n].method = "Title/Author similarity"
    /\ \E n \in DOMAIN cmpLog : cmpLog[n].removed # {}

(***************************************************************************)
(* are_entries_similar on its own: two entries and the two thresholds are  *)
(* drawn, and the call is made.                                            *)
(***************************************************************************)
Texts(alphabet, n) == UNION {[1 .. m -> alphabet] : m \in 0 .. n}

SimFieldChoices == {Absent} \cup Texts({"a", "B"}, MaxSimLen)
SimEntries == {MakeEntry(t, a, Absent) : t \in SimFieldChoices, a \in SimFieldChoices}
TitleThresholds == {<<19, 20>>, <<2, 3>>, <<0, 1>>}
AuthorThresholds == {<<4, 5>>, <<2, 3>>, <<1, 1>>}

IdleBib ==
    /\ pc = "idle"
    /\ all_entries = <<>>
    /\ doi_duplicates = <<>>
    /\ removed_entries = {}
    /\ duplicates_count = 0
    /\ i = 0
    /\ j = 0
    /\ log = <<>>
    /\ cmpLog = <<>>
    /\ unique_entries = <<>>

InitSimilar ==
    /\ IdleBib
    /\ call \in [fn : {"are_entries_similar"}, entry1 : SimEntries, entry2 : SimEntries,
                  title_threshold : TitleThresholds,
                  author_threshold : AuthorThresholds]
    /\ ret = NoCall

CallAreEntriesSimilar ==
    /\ call.fn = "are_entries_similar"
    /\ ret = NoCall
    /\ ret' = [fn |-> "are_entries_similar"] @@
                  AreSimilar(call.entry1, call.entry2,
                             call.title_threshold, call.author_threshold)
    /\ UNCHANGED <<bibVars, call>>

NextSimilar == CallAreEntriesSimilar

SpecSimilar == InitSimilar /\ [][NextSimilar]_vars

\* the two similarities of the entries of the call
CallTitleSimilarity ==
    calculate_similarity(normalize_string(Get(call.entry1, "title", <<>>)),
                         normalize_string(Get(call.entry2, "title", <<>>)))
CallAuthorSimilarity ==
    calculate_similarity(normalize_string(Get(call.entry1, "author", <<>>)),
                         normalize_string(Get(call.entry2, "author", <<>>)))
Exceeds(r, t) == r[1] * t[2] > t[1] * r[2]

\* C5: fuzzy matching is an AND of two strict comparisons.
\* are_entries_similar returns true exactly when the similarity of the
\* normalized titles is strictly greater than title_threshold and that of
\* the normalized authors strictly greater than author_threshold; when the
\* title similarity does not exceed its threshold, the author similarity is
\* not computed and the result is false.
C5_StrictAnd ==
    ret # NoCall =>
        /\ ret.result = (/\ Exceeds(CallTitleSimilarity, call.title_threshold)
                         /\ Exceeds(CallAuthorSimilarity, call.author_threshold))
        /\ ~Exceeds(CallTitleSimilarity, call.title_threshold) =>
               ret.calls = <<"title">> /\ ret.result = FALSE
        /\ Exceeds(CallTitleSimilarity, call.title_threshold) =>
               ret.calls = <<"title", "author">>

\* a title similarity equal to the threshold: no match, authors not compared,
\* although the authors are the same
C5_Witness ==
    /\ ret # NoCall
    /\ CallTitleSimilarity = <<2, 3>>
    /\ call.title_threshold = <<2, 3>>
    /\ CallAuthorSimilarity = <<2, 2>>
    /\ ret.result = FALSE
    /\ ret.calls = <<"title">>

(***************************************************************************)
(* CSVDeduplicator (clean_csv.py). A row is a dict from column names to    *)
(* cells; a cell is a text or NaN (pandas' missing value), and a column    *)
(* may be missing from the row. source_file is set on every row read       *)
(* (line 71) and is left out.                                              *)
(***************************************************************************)
NaN == <<"NaN">>

\* pd.isna(value)
IsNa(value) == value = NaN
\* str(value): str(float('nan')) is 'nan'
Str(value) == IF value = NaN THEN <<"n", "a", "n">> ELSE value

\* CSVDeduplicator.normalize_string
csv_normalize_string(text) ==
    IF IsNa(text) THEN <<>>
    ELSE Strip(CollapseSpace(RemoveSpecial(NFKD(Lower(Str(text))))))

\* "_".join(parts)
RECURSIVE Join(_)
Join(parts) ==
    IF parts = <<>> THEN <<>>
    ELSE IF Len(parts) = 1 THEN parts[1]
    ELSE parts[1] \o <<"_">> \o Join(Tail(parts))

\* the list key_parts of generate_comparison_key (lines 53-60)
KeyParts(row, columns) ==
    [k \in DOMAIN columns |->
        IF columns[k] \in DOMAIN row
        THEN csv_normalize_string(Str(row[columns[k]]))
        ELSE <<>>]

\* CSVDeduplicator.generate_comparison_key, for self.comparison_columns = columns
generate_comparison_key(row, columns) == Join(KeyParts(row, columns))

\* the comparison columns of main(), and the columns the duplicate report reads
comparison_columns == <<"Item Title", "Authors", "Publication Year">>
ReportColumns == {"Item Title", "Authors", "Publication Year"}

MakeRow(columns, cells) ==
    [c \in {columns[k] : k \in {n \in DOMAIN columns : cells[n] # Absent}} |->
        cells[CHOOSE k \in DOMAIN columns : columns[k] = c]]

\* py_.group_by(all_entries_with_keys, lambda x: x[0]): the positions of the
\* rows by key, the keys in first-seen order; groups is a sequence of
\* [key, members]
RECURSIVE GroupBy(_, _, _)
GroupBy(keys, k, groups) ==
    IF k > Len(keys) THEN groups
    ELSE IF \E g \in DOMAIN groups : groups[g].key = keys[k]
    THEN LET g == CHOOSE g \in DOMAIN groups : groups[g].key = keys[k]
         IN  GroupBy(keys, k + 1,
                     [groups EXCEPT ![g].members = Append(@, k)])
    ELSE GroupBy(keys, k + 1, Append(groups, [key |-> keys[k], members |-> <<k>>]))

\* lines 122-155, group by group; st is the state of the loop: the rows of
\* all_data, duplicates_found, the duplicates reported, and the status, which
\* is "KeyError" once the report (lines 134-141) has read a column the
\* original row does not have.
RECURSIVE ProcessGroups(_, _, _, _)
ProcessGroups(rows, groups, g, st) ==
    IF g > Len(groups) \/ st.status # "returned" THEN st
    ELSE LET group == groups[g].members
             original == group[1]
         IN  IF Len(group) > 1
             THEN IF ReportColumns \subseteq DOMAIN rows[original]
                  THEN ProcessGroups(rows, groups, g + 1,
                         [st EXCEPT !.all_data = Append(@, original),
                                    !.duplicates_found = @ + Len(group) - 1,
                                    !.reported = @ \o [n \in 1 .. Len(group) - 1 |->
                                                          <<original, group[n + 1]>>]])
                  ELSE [st EXCEPT !.all_data = Append(@, original),
                                  !.duplicates_found = @ + Len(group) - 1,
                                  !.status = "KeyError"]
             ELSE ProcessGroups(rows, groups, g + 1,
                                [st EXCEPT !.all_data = Append(@, original)])

\* CSVDeduplicator.deduplicate_entries on the rows read from the input files
csv_deduplicate_entries(rows, columns) ==
    LET keys == [k \in DOMAIN rows |-> generate_comparison_key(rows[k], columns)]
    IN  ProcessGroups(rows, GroupBy(keys, 1, <<>>), 1,
                      [status |-> "returned", all_data |-> <<>>,
                       duplicates_found |-> 0, reported |-> <<>>])

CsvTitleChoices == {Absent, NaN, <<"F", "o", "o">>, <<"f", "o", "o", "!">>}
CsvAuthorChoices == {<<"B", "a", "r">>, <<"b", "a", "r">>}
CsvYearChoices == {<<"2", "0", "2", "0">>, <<"2", "0", "2", "1">>}
CsvRows == {MakeRow(comparison_columns, <<t, a, y>>) :
                t \in CsvTitleChoices, a \in CsvAuthorChoices, y \in CsvYearChoices}

InitCsv ==
    /\ IdleBib
    /\ call \in [fn : {"csv.deduplicate_entries"}, rows : SeqsUpTo(CsvRows, MaxBatch)]
    /\ ret = NoCall

CallCsvDeduplicate ==
    /\ call.fn = "csv.deduplicate_entries"
    /\ ret = NoCall
    /\ ret' = csv_deduplicate_entries(call.rows, comparison_columns)
    /\ UNCHANGED <<bibVars, call>>

NextCsv == CallCsvDeduplicate

SpecCsv == InitCsv /\ [][NextCsv]_vars

(***************************************************************************)
(* Claims about CSVDeduplicator.deduplicate_entries, under SpecCsv.        *)
(***************************************************************************)
CsvKey(k) == generate_comparison_key(call.rows[k], comparison_columns)
CsvFirst(k) == CHOOSE m \in DOMAIN call.rows :
                   CsvKey(m) = CsvKey(k) /\ \A n \in DOMAIN call.rows :
                                                CsvKey(n) = CsvKey(k) => m <= n
CsvFirsts == {CsvFirst(k) : k \in DOMAIN call.rows}
ExampleRow1 == MakeRow(comparison_columns,
                       <<(<<"F", "o", "o">>), (<<"B", "a", "r">>), (<<"2", "0", "2", "0">>)>>)
ExampleRow2 == MakeRow(comparison_columns,
                       <<(<<"f", "o", "o", "!">>), (<<"b", "a", "r">>), (<<"2", "0", "2", "0">>)>>)

\* C7: group-key matching. deduplicate_entries returns, for every batch of
\* rows, the first row in input order of every key group (each once), reports
\* every other row of a group as a duplicate of that first row, and the
\* number of retained rows plus duplicates_found is the number of rows read;
\* the rows {Foo, Bar, 2020} and {foo!, bar, 2020} get the same key.
C7_GroupKey ==
    ret # NoCall =>
        /\ ret.status = "returned"
        /\ Range(ret.all_data) = CsvFirsts
        /\ Len(ret.all_data) = Cardinality(CsvFirsts)
        /\ Range(ret.reported) =
               {<<CsvFirst(k), k>> : k \in DOMAIN call.rows \ CsvFirsts}
        /\ Len(ret.reported) = ret.duplicates_found
        /\ Len(ret.all_data) + ret.duplicates_found = Len(call.rows)
        /\ generate_comparison_key(ExampleRow1, comparison_columns) =
               generate_comparison_key(ExampleRow2, comparison_columns)

(***************************************************************************)
(* generate_comparison_key on its own: two rows over two comparison        *)
(* columns are drawn and their keys computed.                              *)
(***************************************************************************)
KeyColumns == <<"Item Title", "Authors">>
KeyCellChoices == {Absent, NaN} \cup Texts({"a", "_"}, MaxKeyLen)
KeyRows == {MakeRow(KeyColumns, <<t, a>>) : t \in KeyCellChoices, a \in KeyCellChoices}

InitKey ==
    /\ IdleBib
    /\ call \in [fn : {"generate_comparison_key"}, row1 : KeyRows, row2 : KeyRows]
    /\ ret = NoCall

CallGenerateComparisonKey ==
    /\ call.fn = "generate_comparison_key"
    /\ ret = NoCall
    /\ ret' = [key_parts1 |-> KeyParts(call.row1, KeyColumns),
               key1 |-> generate_comparison_key(call.row1, KeyColumns),
               key_parts2 |-> KeyParts(call.row2, KeyColumns),
               key2 |-> generate_comparison_key(call.row2, KeyColumns)]
    /\ UNCHANGED <<bibVars, call>>

NextKey == CallGenerateComparisonKey

SpecKey == InitKey /\ [][NextKey]_vars

\* C8: the composite key is injective on the tuple of normalized fields:
\* two rows get equal keys exactly when, for every comparison column, their
\* normalized values for that column are equal.
C8_KeyInjective ==
    ret # NoCall =>
        ((ret.key1 = ret.key2) <=>
             \A k \in DOMAIN KeyColumns : ret.key_parts1[k] = ret.key_parts2[k])

\* C9: a comparison column that is absent from the row, or holds a missing
\* value (NaN), contributes the empty text as its segment of the key.
C9_MissingIsEmpty ==
    ret # NoCall =>
        \A k \in DOMAIN KeyColumns :
            (KeyColumns[k] \notin DOMAIN call.row1 \/ IsNa(call.row1[KeyColumns[k]]))
                => ret.key_parts1[k] = <<>>

(***************************************************************************)
(* normalize_string on its own: a text is drawn, normalized, and the       *)
(* result normalized again.                                                *)
(***************************************************************************)
NormalizeAlphabet == {"a", "A", " ", "\n", "U00A0", "!", "_", "U00E9", "U2102"}

InitNormalize ==
    /\ IdleBib
    /\ call \in [fn : {"normalize_string"}, text : Texts(NormalizeAlphabet, MaxLen)]
    /\ ret = NoCall

CallNormalizeString ==
    /\ call.fn = "normalize_string"
    /\ ret = NoCall
    /\ ret' = [once |-> normalize_string(call.text),
               twice |-> normalize_string(normalize_string(call.text))]
    /\ UNCHANGED <<bibVars, call>>

NextNormalize == CallNormalizeString

SpecNormalize == InitNormalize /\ [][NextNormalize]_vars

\* C10: normalization is idempotent: for every text x,
\* normalize_string(normalize_string(x)) = normalize_string(x).
C10_NormalizeIdempotent ==
    ret # NoCall => ret.twice = ret.once

(***************************************************************************)
(* calculate_similarity on its own: two texts are drawn, short ones and    *)
(* ones of autojunk's length, and the score is computed in both orders, of *)
(* the first text with itself, and of the empty text with the second.      *)
(***************************************************************************)
RatioAlphabet == {"a", "b", "c"}

\* texts long enough for autojunk: one character throughout; two characters
\* in turn; and a text whose last three characters are not popular
LongTexts ==
    {[k \in 1 .. AutoJunkLen |-> "a"],
     [k \in 1 .. AutoJunkLen |-> IF k % 2 = 1 THEN "b" ELSE "a"],
     [k \in 1 .. AutoJunkLen |-> IF k <= AutoJunkLen - 3 THEN "a"
                                 ELSE IF k = AutoJunkLen - 1 THEN "c" ELSE "b"]}

RatioTexts == Texts(RatioAlphabet, MaxRatioLen) \cup LongTexts

InitRatio ==
    /\ IdleBib
    /\ call \in [fn : {"calculate_similarity"}, str1 : RatioTexts, str2 : RatioTexts]
    /\ ret = NoCall

CallCalculateSimilarity ==
    /\ call.fn = "calculate_similarity"
    /\ ret = NoCall
    /\ ret' = [forward |-> calculate_similarity(call.str1, call.str2),
               backward |-> calculate_similarity(call.str2, call.str1),
               same |-> calculate_similarity(call.str1, call.str1),
               empty |-> calculate_similarity(<<>>, call.str2)]
    /\ UNCHANGED <<bibVars, call>>

NextRatio == CallCalculateSimilarity

SpecRatio == InitRatio /\ [][NextRatio]_vars

\* two ratios are the same number
SameRatio(r, t) == r[1] * t[2] = t[1] * r[2]

\* C11: the similarity score is symmetric: for all texts a and b,
\* calculate_similarity(a, b) = calculate_similarity(b, a).
C11_SimilaritySymmetric ==
    ret # NoCall => SameRatio(ret.forward, ret.backward)

\* C12: boundary values of the score. calculate_similarity(a, a) is 1.0 for
\* every text a, the empty one included; calculate_similarity("", b) is 0.0
\* for every non-empty b; and every score lies between 0.0 and 1.0.
C12_SimilarityBounds ==
    ret # NoCall =>
        /\ ret.same[2] > 0 /\ ret.same[1] = ret.same[2]
        /\ call.str2 # <<>> => (ret.empty[2] > 0 /\ ret.empty[1] = 0)
        /\ \A r \in {ret.forward, ret.backward, ret.same, ret.empty} :
               r[2] > 0 /\ 0 <= r[1] /\ r[1] <= r[2]

C12_Witness ==
    /\ ret # NoCall
    /\ call.str1 = <<>>
    /\ call.str2 = <<"a", "b", "a">>
    /\ ret.same = <<1, 1>>
    /\ ret.forward = <<0, 3>>
    /\ ret.empty = <<0, 3>>

(***************************************************************************)
(* The run with a log_duplicate that can fail. log_duplicate appends to    *)
(* the duplicates file (lines 110-116); when the file cannot be opened or  *)
(* written the call raises, and nothing in deduplicate_entries or main     *)
(* catches it: the run ends there (pc = "raised") and returns nothing. The *)
(* failing call is in log: it was made.                                    *)
(***************************************************************************)
\* lines 131-134, with the call of log_duplicate for the k-th pair raising
DoiPassLogRaises ==
    /\ pc = "doi"
    /\ LET found == check_doi_duplicates(all_entries)
       IN  /\ doi_duplicates' = found
           /\ \E k \in DOMAIN found :
                  /\ duplicates_count' = duplicates_count + k
                  /\ removed_entries' = removed_entries \cup {found[n][2] : n \in 1 .. k}
                  /\ log' = log \o [n \in 1 .. k |->
                                        LogCall(found[n][1], found[n][2], "DOI match")]
    /\ pc' = "raised"
    /\ UNCHANGED <<all_entries, i, j, cmpLog, unique_entries, call, ret>>

\* lines 143-146, with the call of log_duplicate raising
InnerCompareLogRaises ==
    /\ pc = "inner"
    /\ j <= Len(all_entries)
    /\ ~IsRemoved(j)
    /\ are_entries_similar(all_entries[i], all_entries[j])
    /\ cmpLog' = Append(cmpLog, [i |-> i, j |-> j, removed |-> removed_entries])
    /\ duplicates_count' = duplicates_count + 1
    /\ removed_entries' = removed_entries \cup {j}
    /\ log' = Append(log, LogCall(i, j, "Title/Author similarity"))
    /\ pc' = "raised"
    /\ UNCHANGED <<all_entries, doi_duplicates, i, j, unique_entries, call, ret>>

NextLog ==
    \/ Next
    \/ DoiPassLogRaises
    \/ InnerCompareLogRaises

SpecLog == Init /\ [][NextLog]_vars

\* C13: log_duplicate is called exactly once per claimed duplicate. At every
\* point of a run, each entry in removed_entries is the duplicate of exactly
\* one call of log_duplicate, every call is for an entry in removed_entries,
\* and no retained entry is the duplicate of a call; so no entry is claimed
\* and logged twice across the DOI pass and the similarity pass.
C13_LoggedOncePerDuplicate ==
    /\ \A k \in removed_entries : Cardinality(ClaimedBy(k)) = 1
    /\ \A n \in DOMAIN log : log[n].duplicate \in removed_entries
    /\ Len(log) = Cardinality(removed_entries)
    /\ Len(log) = duplicates_count
    /\ pc = "done" => \A k \in Range(unique_entries) : ClaimedBy(k) = {}

C13_Witness ==
    /\ pc = "done"
    /\ Len(log) = 2
    /\ log[1].method = "DOI match"
    /\ log[2].method = "Title/Author similarity"
    /\ log[1].duplicate # log[2].duplicate
    /\ removed_entries = {log[1].duplicate, log[2].duplicate}
    /\ unique_entries = <<1>>

\* C14: a failure of log_duplicate does not abort detection: the run is
\* never ended by a failed call, it completes and returns its unique list.
C14_LogFailureNotFatal ==
    pc # "raised"

(***************************************************************************)
(* The two deduplicators side by side: a run is either a run of            *)
(* BibDeduplicator.deduplicate_entries on a batch of entries or a call of  *)
(* CSVDeduplicator.deduplicate_entries on a batch of rows.                 *)
(***************************************************************************)
OrderTitleChoices == {Absent, NaN, <<"F", "o", "o">>, <<"f", "o", "o", "!">>}
OrderYearChoices == {<<"2", "0", "2", "0">>, <<"2", "0", "2", "1">>}
OrderRows == {MakeRow(comparison_columns, <<t, (<<"B", "a", "r">>), y>>) :
                  t \in OrderTitleChoices, y \in OrderYearChoices}

InitOrder ==
    \/ Init
    \/ /\ IdleBib
       /\ call \in [fn : {"csv.deduplicate_entries"}, rows : SeqsUpTo(OrderRows, MaxBatch)]
       /\ ret = NoCall

NextOrder ==
    \/ Next
    \/ NextCsv

SpecOrder == InitOrder /\ [][NextOrder]_vars

\* C15: the unique output is in first-seen order. The list returned by
\* BibDeduplicator.deduplicate_entries is the input sequence with the
\* claimed duplicates deleted: the retained entries in their input order,
\* the first input entry always among them. The rows retained by
\* CSVDeduplicator.deduplicate_entries are the first rows of their keys, in
\* the order in which the keys were first seen.
C15_FirstSeenOrder ==
    /\ pc = "done" =>
           /\ \A a, b \in DOMAIN unique_entries :
                  a < b => unique_entries[a] < unique_entries[b]
           /\ Range(unique_entries) = Positions \ removed_entries
           /\ all_entries # <<>> => unique_entries # <<>> /\ unique_entries[1] = 1
    /\ (call.fn = "csv.deduplicate_entries" /\ ret # NoCall) =>
           /\ \A a, b \in DOMAIN ret.all_data :
                  a < b => ret.all_data[a] < ret.all_data[b]
           /\ \A a \in DOMAIN ret.all_data : CsvFirst(ret.all_data[a]) = ret.all_data[a]

C15_Witness ==
    /\ pc = "done"
    /\ Len(all_entries) = 3
    /\ removed_entries = {2}
    /\ unique_entries = <<1, 3>>

(***************************************************************************)
(* deduplicate_entries on batches with several DOIs and several titles:    *)
(* entries with different DOIs, with DOIs that differ in letter case and   *)
(* whitespace only, with a blank DOI and with none, and with titles that   *)
(* are alike or not.                                                       *)
(***************************************************************************)
SurviveTitleChoices == {Absent, <<"a">>, <<"b">>}
SurviveDoiChoices == {Absent, <<"x">>, <<"X", " ">>, <<"y">>, <<" ">>}
SurviveEntries == {MakeEntry(t, Absent, d) :
                       t \in SurviveTitleChoices, d \in SurviveDoiChoices}

InitSurvive ==
    /\ pc = "doi"
    /\ all_entries \in SeqsUpTo(SurviveEntries, MaxBatch)
    /\ doi_duplicates = <<>>
    /\ removed_entries = {}
    /\ duplicates_count = 0
    /\ i = 0
    /\ j = 0
    /\ log = <<>>
    /\ cmpLog = <<>>
    /\ unique_entries = <<>>
    /\ call = NoCall
    /\ ret = NoCall

SpecSurvive == InitSurvive /\ [][Next]_vars

(***************************************************************************)
(* Two runs of deduplicate_entries on one BibDeduplicator. After the first *)
(* run has returned, deduplicate_entries is called again with the same     *)
(* input files: the files are read again (line 125), the locals            *)
(* duplicates_count and removed_entries start afresh (lines 121-122), and  *)
(* the duplicates file, which only __init__ clears (line 29), keeps what   *)
(* the first run appended. ret holds what the first run returned and       *)
(* logged; call tells that the second run is under way.                    *)
(***************************************************************************)
\* the second call with removed_entries kept from the first
RerunKeepsRemoved ==
    /\ pc = "done"
    /\ call = NoCall
    /\ call' = [fn |-> "deduplicate_entries", run |-> 2]
    /\ ret' = [unique_entries |-> unique_entries, log |-> log]
    /\ pc' = "doi"
    /\ doi_duplicates' = <<>>
    /\ duplicates_count' = 0
    /\ i' = 0
    /\ j' = 0
    /\ cmpLog' = <<>>
    /\ unique_entries' = <<>>
    /\ UNCHANGED <<all_entries, removed_entries, log>>

\* lines 118-127 of the second call
Rerun ==
    /\ pc = "done"
    /\ call = NoCall
    /\ call' = [fn |-> "deduplicate_entries", run |-> 2]
    /\ ret' = [unique_entries |-> unique_entries, log |-> log]
    /\ pc' = "doi"
    /\ doi_duplicates' = <<>>
    /\ removed_entries' = {}
    /\ duplicates_count' = 0
    /\ i' = 0
    /\ j' = 0
    /\ cmpLog' = <<>>
    /\ unique_entries' = <<>>
    /\ UNCHANGED <<all_entries, log>>

NextRerun ==
    \/ Next
    \/ Rerun

SpecRerun == InitSurvive /\ [][NextRerun]_vars

\* the log_duplicate calls of the second run
SecondLog == SubSeq(log, Len(ret.log) + 1, Len(log))

\* C16: re-running is deterministic. The second run of deduplicate_entries
\* on the same deduplicator and the same batch returns the same unique list
\* as the first and makes the same (original, duplicate, method)
\* assignments, in the same number.
C16_RerunSame ==
    (call # NoCall /\ pc = "done") =>
        /\ unique_entries = ret.unique_entries
        /\ Range(SecondLog) = Range(ret.log)
        /\ Len(SecondLog) = Len(ret.log)

C16_Witness ==
    /\ call # NoCall
    /\ pc = "done"
    /\ Len(ret.log) = 2
    /\ ret.log[1].method = "DOI match"
    /\ ret.log[2].method = "Title/Author similarity"
    /\ Len(log) = 4

(***************************************************************************)
(* deduplicate_entries on batches of three given records, with the default *)
(* thresholds 0.95 and 0.8 of are_entries_similar: R1 and R2 are the same  *)
(* paper written differently, R3 is another paper with an empty DOI.       *)
(***************************************************************************)
R1 ==
    [title |-> <<"W", "e", "b", " ", "T", "e", "s", "t", "i", "n", "g", " ",
                 "S", "u", "r", "v", "e", "y">>,
     author |-> <<"D", "o", "e", ",", " ", "J", ".">>,
     doi |-> <<"1", "0", ".", "1", "/", "X">>]
R2 ==
    [title |-> <<"w", "e", "b", " ", "t", "e", "s", "t", "i", "n", "g", " ",
                 "s", "u", "r", "v", "e", "y">>,
     author |-> <<"d", "o", "e", " ", "j">>,
     doi |-> <<"1", "0", ".", "1", "/", "x">>]
R3 ==
    [title |-> <<"U", "n", "r", "e", "l", "a", "t", "e", "d", " ", "P", "a",
                 "p", "e", "r">>,
     author |-> <<"S", "m", "i", "t", "h", ",", " ", "A", ".">>,
     doi |-> <<>>]

InitScenario ==
    /\ pc = "doi"
    /\ all_entries \in SeqsUpTo({R1, R2, R3}, MaxBatch)
    /\ doi_duplicates = <<>>
    /\ removed_entries = {}
    /\ duplicates_count = 0
    /\ i = 0
    /\ j = 0
    /\ log = <<>>
    /\ cmpLog = <<>>
    /\ unique_entries = <<>>
    /\ call = NoCall
    /\ ret = NoCall

SpecScenario == InitScenario /\ [][Next]_vars

\* C17: the batch R1, R2, R3. The run returns unique = [R1, R3] and reports
\* exactly one duplicate, R2 as a duplicate of R1 by DOI match; no
\* Title/Author-similarity duplicate is reported, and R1 is only ever
\* compared with R3.
C17_Scenario ==
    (all_entries = <<R1, R2, R3>> /\ pc = "done") =>
        /\ unique_entries = <<1, 3>>
        /\ log = <<LogCall(1, 2, "DOI match")>>
        /\ duplicates_count = 1
        /\ removed_entries = {2}
        /\ cmpLog = <<[i |-> 1, j |-> 3, removed |-> {2}]>>

C17_Witness ==
    /\ all_entries = <<R1, R2, R3>>
    /\ pc = "done"
    /\ Len(log) = 1
    /\ unique_entries = <<1, 3>>

(***************************************************************************)
(* clean_mf.py: Deduplicator. An entry is a record read from a .bib, .csv  *)
(* or .xlsx file; read_csv and read_excel give every entry a title and a   *)
(* doi ('' for an empty cell), a .bib entry has the fields its source has. *)
(* process_files works on the entries themselves; here an entry of the     *)
(* batch is known by its position.                                         *)
(***************************************************************************)
\* unicodedata.category(c) == 'Mn'
IsMark(c) == c = "U0301"
IsNoMark(c) == ~IsMark(c)
\* line 25
RemoveMarks(text) == SelectSeq(text, IsNoMark)
\* re.sub(r'[^\w\s]', ' ', text)
ReplaceSpecial(text) == [k \in DOMAIN text |-> IF IsKept(text[k]) THEN text[k] ELSE " "]

\* text.split(): the maximal runs of non-whitespace characters
RECURSIVE Split(_)
Split(text) ==
    LET rest == LStrip(text)
    IN  IF rest = <<>> THEN <<>>
        ELSE LET spaces == {k \in DOMAIN rest : IsSpace(rest[k])}
                 end == IF spaces = {} THEN Len(rest) + 1
                        ELSE CHOOSE k \in spaces : \A n \in spaces : k <= n
             IN  <<SubSeq(rest, 1, end - 1)>> \o Split(SubSeq(rest, end, Len(rest)))

\* ' '.join(parts)
RECURSIVE JoinSpace(_)
JoinSpace(parts) ==
    IF parts = <<>> THEN <<>>
    ELSE IF Len(parts) = 1 THEN parts[1]
    ELSE parts[1] \o <<" ">> \o JoinSpace(Tail(parts))

\* Deduplicator.normalize_text
normalize_text(text) ==
    IF IsNa(text) THEN <<>>
    ELSE JoinSpace(Split(ReplaceSpecial(RemoveMarks(NFKD(Lower(Str(text)))))))

\* Deduplicator.are_duplicates
are_duplicates(entry1, entry2) ==
    IF /\ Get(entry1, "doi", <<>>) # <<>>
       /\ Get(entry2, "doi", <<>>) # <<>>
       /\ Strip(entry1["doi"]) = Strip(entry2["doi"])
    THEN TRUE
    ELSE LET title1 == normalize_text(Get(entry1, "title", <<>>))
             title2 == normalize_text(Get(entry2, "title", <<>>))
         IN  title1 # <<>> /\ title2 # <<>> /\ title1 = title2

\* the loop of lines 139-147 with the break of line 145 left out
RECURSIVE ProcessEntriesNoBreak(_, _, _, _)
ProcessEntriesNoBreak(entries, k, unique, duplicates) ==
    IF k > Len(entries) THEN [unique_entries |-> unique, duplicates |-> duplicates]
    ELSE LET hits == SelectSeq(unique,
                         LAMBDA u : are_duplicates(entries[k], entries[u]))
         IN  IF hits # <<>>
             THEN ProcessEntriesNoBreak(entries, k + 1, unique,
                      duplicates \o [n \in DOMAIN hits |-> <<hits[n], k>>])
             ELSE ProcessEntriesNoBreak(entries, k + 1, Append(unique, k), duplicates)

ProcessFilesNoBreak(entries) == ProcessEntriesNoBreak(entries, 1, <<>>, <<>>)

\* the loop of lines 139-147 from entry k on: the entry is reported as a
\* duplicate of the first unique entry it matches, or becomes unique itself
RECURSIVE ProcessEntries(_, _, _, _)
ProcessEntries(entries, k, unique, duplicates) ==
    IF k > Len(entries) THEN [unique_entries |-> unique, duplicates |-> duplicates]
    ELSE LET hits == SelectSeq(unique,
                         LAMBDA u : are_duplicates(entries[k], entries[u]))
         IN  IF hits # <<>>
             THEN ProcessEntries(entries, k + 1, unique,
                                 Append(duplicates, <<hits[1], k>>))
             ELSE ProcessEntries(entries, k + 1, Append(unique, k), duplicates)

\* Deduplicator.process_files on the entries read from the input files
process_files(entries) == ProcessEntries(entries, 1, <<>>, <<>>)

MfTitleChoices == {Absent, <<"a">>, <<"A", "!">>, <<"b">>}
MfDoiChoices == {Absent, <<>>, <<" ">>, <<"x">>, <<"X", " ">>, <<"x", " ">>}
MfEntries == {MakeEntry(t, Absent, d) : t \in MfTitleChoices, d \in MfDoiChoices}

MfPairTitleChoices == {Absent, <<"a">>, <<"b">>}
MfPairDoiChoices ==
    MfDoiChoices \cup {<<"1", "0", ".", "1", "/", "A", "B", "C", " ">>,
                       <<"1", "0", ".", "1", "/", "a", "b", "c">>}
MfPairEntries == {MakeEntry(t, Absent, d) : t \in MfPairTitleChoices, d \in MfPairDoiChoices}

InitMf ==
    /\ IdleBib
    /\ \/ call \in [fn : {"are_duplicates"}, entry1 : MfPairEntries, entry2 : MfPairEntries]
       \/ call \in [fn : {"process_files"}, entries : SeqsUpTo(MfEntries, MaxBatch)]
    /\ ret = NoCall

CallAreDuplicates ==
    /\ call.fn = "are_duplicates"
    /\ ret = NoCall
    /\ ret' = [result |-> are_duplicates(call.entry1, call.entry2)]
    /\ UNCHANGED <<bibVars, call>>

CallProcessFiles ==
    /\ call.fn = "process_files"
    /\ ret = NoCall
    /\ ret' = process_files(call.entries)
    /\ UNCHANGED <<bibVars, call>>

NextMf ==
    \/ CallAreDuplicates
    \/ CallProcessFiles

SpecMf == InitMf /\ [][NextMf]_vars

\* both entries have a non-empty DOI, and the DOIs differ at most in letter
\* case and in surrounding whitespace
DoisAlike(entry1, entry2) ==
    /\ Get(entry1, "doi", <<>>) # <<>>
    /\ Get(entry2, "doi", <<>>) # <<>>
    /\ EqualIgnoringCase(Core(entry1["doi"]), Core(entry2["doi"]))

\* C18: two entries whose non-empty DOIs differ only in letter case or in
\* surrounding whitespace are matched by are_duplicates whatever their
\* titles, and process_files on a batch of two such entries reports the
\* second as a duplicate of the first.
C18_DoiCaseWhitespace ==
    /\ (call.fn = "are_duplicates" /\ ret # NoCall
            /\ DoisAlike(call.entry1, call.entry2)) => ret.result
    /\ (call.fn = "process_files" /\ ret # NoCall /\ Len(call.entries) = 2
            /\ DoisAlike(call.entries[1], call.entries[2])) =>
           ret.duplicates = <<(<<1, 2>>)>>

\* the pairs of process_files' duplicates that report entry k
MfReportedBy(k) == {n \in DOMAIN ret.duplicates : ret.duplicates[n][2] = k}

\* C20: process_files partitions the batch, originals always retained. Every
\* entry read is either in unique_entries or the second element of exactly
\* one pair of duplicates, never both; len(unique_entries) + len(duplicates)
\* is the number of entries read; the first element of every pair is in
\* unique_entries and precedes the duplicate in the input; and no two
\* entries of unique_entries satisfy are_duplicates.
C20_MfPartition ==
    (call.fn = "process_files" /\ ret # NoCall) =>
        /\ \A k \in DOMAIN call.entries :
              \/ /\ k \in Range(ret.unique_entries)
                 /\ MfReportedBy(k) = {}
              \/ /\ k \notin Range(ret.unique_entries)
                 /\ Cardinality(MfReportedBy(k)) = 1
        /\ \A a, b \in DOMAIN ret.unique_entries :
              a # b => ret.unique_entries[a] # ret.unique_entries[b]
        /\ Len(ret.unique_entries) + Len(ret.duplicates) = Len(call.entries)
        /\ \A n \in DOMAIN ret.duplicates :
              /\ ret.duplicates[n][1] \in Range(ret.unique_entries)
              /\ ret.duplicates[n][1] < ret.duplicates[n][2]
        /\ \A a, b \in Range(ret.unique_entries) :
              a # b => ~are_duplicates(call.entries[a], call.entries[b])

C20_Witness ==
    /\ call.fn = "process_files"
    /\ ret # NoCall
    /\ Len(call.entries) = 3
    /\ ret.unique_entries = <<1, 2>>
    /\ ret.duplicates = <<(<<1, 3>>)>>
    /\ are_duplicates(call.entries[3], call.entries[2])

(***************************************************************************)
(* Claims about what deduplicate_entries returns, under SpecSurvive.       *)
(***************************************************************************)
\* C19: no detectable duplicate survives. Among the entries returned by
\* deduplicate_entries no two entries with a DOI have the same lowercased
\* and trimmed DOI, and no returned entry is similar, by
\* are_entries_similar, to a returned entry earlier in the input.
C19_NoDuplicateSurvives ==
    pc = "done" =>
        \A a, b \in Range(unique_entries) :
            a < b => /\ ~SameDoi(a, b)
                     /\ ~are_entries_similar(all_entries[a], all_entries[b])

C19_Witness ==
    /\ pc = "done"
    /\ Len(all_entries) = 3
    /\ unique_entries = <<1, 2>>
    /\ HasDoi(all_entries[1])
    /\ HasDoi(all_entries[2])
    /\ \/ SameDoi(1, 3)
       \/ SameDoi(2, 3)
       \/ are_entries_similar(all_entries[1], all_entries[3])
       \/ are_entries_similar(all_entries[2], all_entries[3])

(***************************************************************************)
(* clean_xlsx.py: ExcelDeduplicator, the streaming deduplicator, next to   *)
(* CSVDeduplicator, the one that groups the whole batch. A row is known by *)
(* its position in the batch, as in csv_deduplicate_entries.               *)
(***************************************************************************)
\* ExcelDeduplicator.normalize_string
xlsx_normalize_string(text) ==
    IF IsNa(text) THEN <<>>
    ELSE Strip(CollapseSpace(RemoveSpecial(NFKD(Lower(Str(text))))))

\* the list key_parts of ExcelDeduplicator.generate_comparison_key (lines
\* 51-58): the cell goes to normalize_string as it is
XlsxKeyParts(row, columns) ==
    [k \in DOMAIN columns |->
        IF columns[k] \in DOMAIN row
        THEN xlsx_normalize_string(row[columns[k]])
        ELSE <<>>]

\* ExcelDeduplicator.generate_comparison_key, for self.comparison_columns = columns
xlsx_generate_comparison_key(row, columns) == Join(XlsxKeyParts(row, columns))

\* lines 86-118 from row k on; unique_keys and unique_rows are the keys of
\* the dictionary unique_entries, in insertion order, and the row of each
RECURSIVE XlsxRows(_, _, _, _, _, _)
XlsxRows(rows, columns, k, unique_keys, unique_rows, st) ==
    IF k > Len(rows) THEN st
    ELSE LET comparison_key == xlsx_generate_comparison_key(rows[k], columns)
             known == {u \in DOMAIN unique_keys : unique_keys[u] = comparison_key}
         IN  IF known = {}
             THEN XlsxRows(rows, columns, k + 1,
                           Append(unique_keys, comparison_key), Append(unique_rows, k),
                           [st EXCEPT !.all_data = Append(@, k)])
             ELSE LET original_row == unique_rows[CHOOSE u \in known : TRUE]
                  IN  XlsxRows(rows, columns, k + 1, unique_keys, unique_rows,
                               [st EXCEPT !.duplicates_found = @ + 1,
                                          !.reported = Append(@, <<original_row, k>>)])

\* ExcelDeduplicator.deduplicate_entries on the rows read from the input files
xlsx_deduplicate_entries(rows, columns) ==
    XlsxRows(rows, columns, 1, <<>>, <<>>,
             [status |-> "returned", all_data |-> <<>>,
              duplicates_found |-> 0, reported |-> <<>>])

\* the comparison columns of clean_xlsx.py's main()
xlsx_comparison_columns == <<"Article Title", "Authors", "Publication Year">>

BothColumns == <<"Item Title", "Article Title", "Authors", "Publication Year">>
BothItemChoices == {Absent, <<"F", "o", "o">>, <<"f", "o", "o", "!">>}
BothArticleChoices == {Absent, NaN, <<"F", "o", "o">>}
BothYearChoices == {<<"2", "0", "2", "0">>, <<"2", "0", "2", "1">>}
BothRows == {MakeRow(BothColumns, <<t, a, (<<"B", "a", "r">>), y>>) :
                 t \in BothItemChoices, a \in BothArticleChoices, y \in BothYearChoices}

InitBoth ==
    /\ IdleBib
    /\ call \in [fn : {"deduplicate_entries"},
                 columns : {comparison_columns, xlsx_comparison_columns},
                 rows : SeqsUpTo(BothRows, MaxBatch)]
    /\ ret = NoCall

\* the same rows and comparison columns given to both deduplicators
CallBothDeduplicate ==
    /\ call.fn = "deduplicate_entries"
    /\ ret = NoCall
    /\ ret' = [csv |-> csv_deduplicate_entries(call.rows, call.columns),
               xlsx |-> xlsx_deduplicate_entries(call.rows, call.columns)]
    /\ UNCHANGED <<bibVars, call>>

NextBoth == CallBothDeduplicate

SpecBoth == InitBoth /\ [][NextBoth]_vars

\* every comparison column is present in every row, with a value
AllCellsPresent ==
    \A k \in DOMAIN call.rows : \A c \in DOMAIN call.columns :
        /\ call.columns[c] \in DOMAIN call.rows[k]
        /\ ~IsNa(call.rows[k][call.columns[c]])

\* C21: the batch implementation and the streaming implementation are
\* equivalent. On rows in which every comparison column is present with a
\* value, CSVDeduplicator.deduplicate_entries and
\* ExcelDeduplicator.deduplicate_entries retain the same rows in the same
\* order, report the same (original, duplicate) pairs and count the same
\* number of duplicates.
C21_BatchStreamingEquivalent ==
    (ret # NoCall /\ AllCellsPresent) =>
        /\ ret.csv.status = "returned"
        /\ ret.xlsx.status = "returned"
        /\ ret.csv.all_data = ret.xlsx.all_data
        /\ Range(ret.csv.reported) = Range(ret.xlsx.reported)
        /\ ret.csv.duplicates_found = ret.xlsx.duplicates_found

(***************************************************************************)
(* deduplicate_entries on batches with entries that have no title and no   *)
(* author to compare: the field is missing, empty, or holds punctuation    *)
(* only, which normalize_string removes.                                   *)
(***************************************************************************)
BlankTitleChoices == {<<>>, <<"!">>, <<"a">>}
BlankAuthorChoices == {Absent, <<".">>, <<"a">>}
BlankDoiChoices == {Absent, <<"x">>}
BlankEntries == {MakeEntry(t, a, d) :
                     t \in BlankTitleChoices, a \in BlankAuthorChoices, d \in BlankDoiChoices}

InitBlank ==
    /\ pc = "doi"
    /\ all_entries \in SeqsUpTo(BlankEntries, MaxBatch)
    /\ doi_duplicates = <<>>
    /\ removed_entries = {}
    /\ duplicates_count = 0
    /\ i = 0
    /\ j = 0
    /\ log = <<>>
    /\ cmpLog = <<>>
    /\ unique_entries = <<>>
    /\ call = NoCall
    /\ ret = NoCall

SpecBlank == InitBlank /\ [][Next]_vars

\* the entry has neither a title nor an author after normalization
IsBlank(entry) ==
    /\ normalize_string(Get(entry, "title", <<>>)) = <<>>
    /\ normalize_string(Get(entry, "author", <<>>)) = <<>>

\* the blank entries of the batch that the DOI pass has not claimed
UnclaimedBlanks ==
    {k \in Positions : /\ IsBlank(all_entries[k])
                       /\ \A n \in DOMAIN doi_duplicates : doi_duplicates[n][2] # k}

EarliestUnclaimedBlank == CHOOSE e \in UnclaimedBlanks : \A k \in UnclaimedBlanks : e <= k

\* C22: entries without title and author are merged by the similarity
\* pass. Two entries whose title and author are both missing or empty after
\* normalization are similar by are_entries_similar, and when the run
\* returns, every such entry the DOI pass has not claimed, other than the
\* earliest one, has been removed and logged as a Title/Author-similarity
\* duplicate of that earliest one, which is retained.
C22_BlankMerged ==
    (pc = "done" /\ UnclaimedBlanks # {}) =>
          /\ \A a, b \in UnclaimedBlanks :
                are_entries_similar(all_entries[a], all_entries[b])
          /\ EarliestUnclaimedBlank \in Range(unique_entries)
          /\ \A b \in UnclaimedBlanks \ {EarliestUnclaimedBlank} :
                /\ b \in removed_entries
                /\ b \notin Range(unique_entries)
                /\ ClaimedBy(b) # {}
                /\ \A n \in ClaimedBy(b) :
                      log[n] = LogCall(EarliestUnclaimedBlank, b, "Title/Author similarity")

C22_Witness ==
    /\ pc = "done"
    /\ Len(all_entries) = 3
    /\ ~IsBlank(all_entries[1])
    /\ UnclaimedBlanks = {2, 3}
    /\ all_entries[2] # all_entries[3]
    /\ log = <<LogCall(2, 3, "Title/Author similarity")>>
    /\ unique_entries = <<1, 2>>

====
